---------------------------- MODULE Spec2Model ----------------------------
(***************************************************************************)
(* Closed-loop temperature regulation scripts of espiy123/automatyka:      *)
(*   src/ac.py                         symulacja / PIDController           *)
(*   src/grzejnik.py                   simulate_2h / PI                    *)
(*   src/.ipynb_checkpoints/ac-checkpoint.py   symulacja / PIDController   *)
(*                                                                         *)
(* The scripts compute in IEEE doubles.  The model computes in fixed point *)
(* with truncation toward zero after every multiply/divide:                *)
(*   temperatures, errors, integral terms    1/DEG degree Celsius          *)
(*   powers, heat losses                      milliwatt                    *)
(*   times (tp, ti, td, total_time, windows)  tenths of a second           *)
(*   gains kp                                 1/1000                       *)
(*   heat capacities                          millijoule per kelvin        *)
(*   recorded sample times                    1/DEG minute                 *)
(* Python exceptions are outcomes of a run (pc = "raised", exc = name).    *)
(***************************************************************************)
EXTENDS Integers, Sequences, FiniteSets, TLC

VARIABLES
    prog,               \* which script's run: "ac", "grz" or "ckpt"
    params,             \* the arguments of the current call
    call_no,            \* 1 for the first call, 2 for the call that follows it
    prev,               \* arguments and result of the previous call
    pc,                 \* "start", "loop", "returned", "raised"
    exc,                \* the exception a raised run ended with
    pid,                \* the controller object of the run
    current_temp,       \* current_temp / T_room
    i,                  \* loop index
    steps,              \* steps / SIM_TIME
    time_points,        \* time_points / time_array
    temperature_points, \* temperature_points / temp_array
    power_array,        \* power_array (grzejnik.py)
    heat_loss_array,    \* heat_loss_array (grzejnik.py)
    loc                 \* locals of the last loop iteration

vars == <<prog, params, call_no, prev, pc, exc, pid, current_temp, i, steps,
          time_points, temperature_points, power_array, heat_loss_array, loc>>

----------------------------------------------------------------------------
(* Fixed-point arithmetic *)

\* units per degree Celsius (and per minute in recorded sample times)
DEG == 10 ^ 4

\* tenths of a second per second
TPS == 10 ^ 1

\* 273.15 in 1/DEG degree
KELVIN_OFFSET == 27315 * (DEG \div 100)

Abs(x) == IF x < 0 THEN -x ELSE x

Min(a, b) == IF a <= b THEN a ELSE b

Max(a, b) == IF a >= b THEN a ELSE b

\* <<quotient, remainder>> of a*b by c for a, b >= 0, c > 0, without forming a*b
RECURSIVE QuotRem(_, _, _)
QuotRem(a, b, c) ==
    IF b = 0 THEN <<0, 0>>
    ELSE LET h  == QuotRem(a, b \div 2, c)
             q2 == 2 * h[1] + (2 * h[2]) \div c
             r2 == (2 * h[2]) % c
         IN  IF b % 2 = 0 THEN <<q2, r2>>
             ELSE <<q2 + (a \div c) + (r2 + (a % c)) \div c, (r2 + (a % c)) % c>>

\* a*b/c truncated toward zero, c # 0
MulDiv(a, b, c) ==
    LET neg == ((a < 0) # (b < 0)) # (c < 0)
        x   == Max(Abs(a), Abs(b))
        y   == Min(Abs(a), Abs(b))
        q   == QuotRem(x, y, Abs(c))[1]
    IN  IF neg THEN -q ELSE q

\* floor of the square root, n >= 0
RECURSIVE Isqrt(_)
Isqrt(n) ==
    IF n < 2 THEN n
    ELSE LET s == 2 * Isqrt(n \div 4)
         IN  IF (s + 1) * (s + 1) <= n THEN s + 1 ELSE s

\* a range that runs one index too far
InRange_inclusive(k, n) == 0 <= k /\ k <= n

\* k is one of the indices of range(n)
InRange(k, n) == 0 <= k /\ k < n

\* np.clip(x, lo, hi) = minimum(maximum(x, lo), hi)
Clip(x, lo, hi) == Min(Max(x, lo), hi)

\* Python int(x / y) for y # 0: the quotient truncated toward zero
IntDiv(x, y) == MulDiv(x, 1, y)

\* (power / heat_capacity) * time as a temperature change
EulerStep(power_mW, capacity_mJK, tp) ==
    MulDiv(power_mW, tp * (DEG \div TPS), capacity_mJK)

\* degrees, watts and seconds in the model's units
C(x) == x * DEG

W(x) == x * 1000

S(x) == x * TPS

----------------------------------------------------------------------------
(* Shapes of the state *)

NoOpenings == <<>>

\* the arguments of a call; a script leaves the arguments it does not take at 0
Args(setpoint, initial_temp, total_time, ac_power, external_temp, manual_window_open, random_openings, wall_thickness, kp, ti, td, tp) ==
    [setpoint |-> setpoint, initial_temp |-> initial_temp,
     total_time |-> total_time, ac_power |-> ac_power,
     external_temp |-> external_temp,
     manual_window_open |-> manual_window_open,
     random_openings |-> random_openings,
     wall_thickness |-> wall_thickness,
     kp |-> kp, ti |-> ti, td |-> td, tp |-> tp]

\* the controller object before any constructor has run on it
NoController ==
    [kp |-> 0, ti |-> 0, td |-> 0, tp |-> 0, integral |-> 0, prev_error |-> 0,
     Ti |-> 0, Tp |-> 0, u_min |-> 0, u_max |-> 0, u_prev |-> 0, e_prev |-> 0, delta_u |-> 0,
     clamp_min |-> 0, clamp_max |-> 0]

\* the locals of a loop iteration before the first iteration
NoLocals ==
    [current_time |-> 0, window_open |-> FALSE, measured_value |-> 0,
     raw_output |-> 0, thermostat |-> 0, loss |-> 0, gains |-> 0, dT |-> 0,
     heat_loss_walls |-> 0, heat_loss_door |-> 0, heat_loss_window |-> 0,
     heat_loss_roof |-> 0, heat_loss_ground |-> 0]

NoResult ==
    [params |-> Args(0, 0, 0, 0, 0, FALSE, NoOpenings, 0, 0, 0, 0, 0),
     pc |-> "none", exc |-> "none", time_points |-> <<>>,
     temperature_points |-> <<>>, power_array |-> <<>>,
     heat_loss_array |-> <<>>]

\* a controller update: the object after it, the value returned, the exception
Updated(self, output) == [self |-> self, output |-> output, exc |-> "none"]

Raised(self, name) == [self |-> self, output |-> 0, exc |-> name]

----------------------------------------------------------------------------
(* src/ac.py *)

\* a constructor that leaves the accumulated state of the object as it was
PIDController_init_shared(self, kp, tp, ti, td) ==
    [self EXCEPT !.kp = kp, !.ti = ti, !.td = td, !.tp = tp]

\* PIDController.__init__
PIDController_init(self, kp, tp, ti, td) ==
    [self EXCEPT !.kp = kp, !.ti = ti, !.td = td, !.tp = tp,
                 !.integral = 0, !.prev_error = 0]

\* PIDController.symulacja_PID: the output is returned as computed, unclamped
symulacja_PID(self, setpoint, measured_value) ==
    LET error    == setpoint - measured_value
        integral == self.integral + self.prev_error
        s1       == [self EXCEPT !.integral = integral]
    IN  IF self.tp = 0 THEN Raised(s1, "ZeroDivisionError")
        ELSE LET derivative == MulDiv(error - self.prev_error, TPS, self.tp)
             IN  IF self.ti = 0 THEN Raised(s1, "ZeroDivisionError")
                 ELSE LET output == MulDiv(
                                  error
                                  + MulDiv(integral, self.tp, self.ti)
                                  + MulDiv(derivative, self.td, TPS),
                                  self.kp, DEG)
                      IN  Updated([s1 EXCEPT !.prev_error = error], output)

block_ratio_m == 800

insulation_ratio_m == 200

k_block_m == 1200

k_insulation_m == 40

wall_area == 10

\* k_wall = (block_ratio / k_block + insulation_ratio / k_insulation) ** -1,
\* in microwatt per metre kelvin
k_wall_u ==
    MulDiv(10 ^ 6, 10 ^ 6,
           MulDiv(block_ratio_m, 10 ^ 6, k_block_m)
           + MulDiv(insulation_ratio_m, 10 ^ 6, k_insulation_m))

air_density_m == 1225

specific_heat_air == 1005

g_c == 981

h_d == 1

\* airflow_velocity = 0.5 * sqrt(g * h * delta_temp / external_temp_k), in
\* 1/10000 metre per second; sqrt of a negative number is nan
airflow_velocity(delta_temp, external_temp_k) ==
    Isqrt(MulDiv(g_c * h_d * 100000, delta_temp, external_temp_k)) \div 2

\* a loss with the temperature difference taken the other way round
heat_loss_model_reversed(temp, external_temp, window_open, wall_thickness) ==
    MulDiv(MulDiv(k_wall_u * wall_area, external_temp - temp, DEG * 1000),
           100, wall_thickness)

\* heat_loss_model, in milliwatt
heat_loss_model(temp, external_temp, window_open, wall_thickness) ==
    LET heat_loss ==
            MulDiv(MulDiv(k_wall_u * wall_area, temp - external_temp, DEG * 1000),
                   100, wall_thickness)
        delta_temp      == Abs(temp - external_temp)
        external_temp_k == external_temp + KELVIN_OFFSET
        airflow_rate    == airflow_velocity(delta_temp, external_temp_k)
    IN  IF window_open
        THEN heat_loss
             + MulDiv(MulDiv(airflow_rate, air_density_m * specific_heat_air, 10000),
                      temp - external_temp, DEG)
        ELSE heat_loss

room_volume == 40

\* heat_capacity = room_volume * air_density * specific_heat_air
heat_capacity == room_volume * air_density_m * specific_heat_air

\* a loop that never looks at the windows
WindowOpenAt_manual(window_open, random_openings, current_time) == window_open

\* a loop that leaves the ends of a window out
RECURSIVE WindowOpenAt_strict(_, _, _)
WindowOpenAt_strict(window_open, random_openings, current_time) ==
    IF random_openings = <<>> THEN window_open
    ELSE LET start == Head(random_openings)[1]
             end   == Head(random_openings)[2]
         IN  IF start < current_time /\ current_time < end THEN TRUE
             ELSE WindowOpenAt_strict(window_open, Tail(random_openings),
                                      current_time)

\* the loop over random_openings with its break (symulacja, lines 99-103)
RECURSIVE WindowOpenAt(_, _, _)
WindowOpenAt(window_open, random_openings, current_time) ==
    IF random_openings = <<>> THEN window_open
    ELSE LET start == Head(random_openings)[1]
             end   == Head(random_openings)[2]
         IN  IF start <= current_time /\ current_time <= end THEN TRUE
             ELSE WindowOpenAt(window_open, Tail(random_openings), current_time)

\* current_time / 60, in 1/DEG minute
Minutes(current_time) == MulDiv(current_time, DEG, 60 * TPS)

\* a time in seconds, in 1/DEG second
Seconds(current_time) == MulDiv(current_time, DEG, TPS)

\* one iteration of the loop of symulacja (lines 96-112)
AcStep ==
    /\ prog = "ac" /\ pc = "loop" /\ InRange(i, steps)
    /\ LET current_time == i * params.tp
           window_open  == WindowOpenAt(params.manual_window_open,
                                        params.random_openings, current_time)
           upd          == symulacja_PID(pid, params.setpoint, current_temp)
           raw_output   == upd.output
           thermostat   == Clip(raw_output, 0, params.ac_power)
           loss         == heat_loss_model(current_temp, params.external_temp,
                                           window_open, params.wall_thickness)
           dT           == EulerStep(thermostat - loss, heat_capacity, params.tp)
       IN  /\ pid' = upd.self
           /\ IF upd.exc # "none"
              THEN /\ pc' = "raised" /\ exc' = upd.exc
                   /\ loc' = [loc EXCEPT !.current_time = current_time,
                                         !.window_open = window_open,
                                         !.measured_value = current_temp]
                   /\ UNCHANGED <<current_temp, i, time_points, temperature_points>>
              ELSE /\ current_temp' = current_temp + dT
                   /\ time_points' = Append(time_points, Minutes(current_time))
                   /\ temperature_points' = Append(temperature_points, current_temp')
                   /\ loc' = [loc EXCEPT !.current_time = current_time,
                                         !.window_open = window_open,
                                         !.measured_value = current_temp,
                                         !.raw_output = raw_output,
                                         !.thermostat = thermostat,
                                         !.loss = loss, !.gains = 0, !.dT = dT]
                   /\ i' = i + 1
                   /\ UNCHANGED <<pc, exc>>
    /\ UNCHANGED <<prog, params, call_no, prev, steps, power_array, heat_loss_array>>

\* symulacja up to its loop (lines 82-94)
AcBegin ==
    /\ prog = "ac" /\ pc = "start"
    /\ pid' = PIDController_init(pid, params.kp, params.tp, params.ti, params.td)
    /\ current_temp' = params.initial_temp
    /\ time_points' = <<>> /\ temperature_points' = <<>>
    /\ power_array' = <<>> /\ heat_loss_array' = <<>>
    /\ loc' = NoLocals /\ i' = 0
    /\ IF params.tp = 0
       THEN pc' = "raised" /\ exc' = "ZeroDivisionError" /\ steps' = 0
       ELSE pc' = "loop" /\ exc' = "none"
            /\ steps' = IntDiv(params.total_time, params.tp)
    /\ UNCHANGED <<prog, params, call_no, prev>>

\* symulacja after its loop (lines 114-118): calculate_overshoot takes the
\* max() of temperature_points, which raises ValueError on an empty list
AcFinish ==
    /\ prog = "ac" /\ pc = "loop" /\ ~InRange(i, steps)
    /\ IF temperature_points = <<>>
       THEN pc' = "raised" /\ exc' = "ValueError"
       ELSE pc' = "returned" /\ exc' = "none"
    /\ UNCHANGED <<prog, params, call_no, prev, pid, current_temp, i, steps,
                   time_points, temperature_points, power_array,
                   heat_loss_array, loc>>

----------------------------------------------------------------------------
(* src/grzejnik.py *)

\* PI.__init__
PI_init(self, kp, Ti, Tp, u_min, u_max) ==
    [self EXCEPT !.kp = kp, !.Ti = Ti, !.Tp = Tp, !.u_min = u_min,
                 !.u_max = u_max, !.u_prev = 0, !.e_prev = 0, !.delta_u = 0]

\* PI.reset
PI_reset(self) == [self EXCEPT !.u_prev = 0, !.e_prev = 0]

\* an update that returns and keeps u_prev + delta_u as it is
PI_update_noclip(self, setpoint, measurement) ==
    LET e       == setpoint - measurement
        delta_e == e - self.e_prev
    IN  IF self.Ti = 0 THEN Raised(self, "ZeroDivisionError")
        ELSE LET delta_u == MulDiv(delta_e + MulDiv(e, self.Tp, self.Ti),
                                   self.kp, DEG)
                 u       == self.u_prev + delta_u
             IN  Updated([self EXCEPT !.delta_u = delta_u, !.e_prev = e,
                                      !.u_prev = u], u)

\* an update that returns the clamped value and carries u_prev + delta_u as it
\* is, so that saturation accumulates past the bounds
PI_update_windup(self, setpoint, measurement) ==
    LET e       == setpoint - measurement
        delta_e == e - self.e_prev
    IN  IF self.Ti = 0 THEN Raised(self, "ZeroDivisionError")
        ELSE LET delta_u == MulDiv(delta_e + MulDiv(e, self.Tp, self.Ti),
                                   self.kp, DEG)
                 u       == self.u_prev + delta_u
             IN  Updated([self EXCEPT !.delta_u = delta_u, !.e_prev = e,
                                      !.u_prev = u],
                         Clip(u, self.u_min, self.u_max))

\* PI.update
PI_update(self, setpoint, measurement) ==
    LET e       == setpoint - measurement
        delta_e == e - self.e_prev
    IN  IF self.Ti = 0 THEN Raised(self, "ZeroDivisionError")
        ELSE LET delta_u == MulDiv(delta_e + MulDiv(e, self.Tp, self.Ti),
                                   self.kp, DEG)
                 u       == Clip(self.u_prev + delta_u, self.u_min, self.u_max)
             IN  Updated([self EXCEPT !.delta_u = delta_u, !.e_prev = e,
                                      !.u_prev = u], u)

VOLUME_d == 4 * 4 * 25

AIR_DENSITY_d == 12

AIR_CAPACITY == 1005

MASS_c == VOLUME_d * AIR_DENSITY_d

\* C = MASS * AIR_CAPACITY, in millijoule per kelvin
C_mJK == MASS_c * AIR_CAPACITY * 10

max_power == 5000

U_DOOR_c == 130

DOOR_AREA_c == 180

U_WINDOW_c == 90

WINDOW_AREA_c == 135

U_ROOF_c == 15

ROOF_AREA_c == 1600

U_GROUND_c == 30

GROUND_AREA_c == 1600

U_WALL_c == 20

WALL_AREA_c == 4000 - DOOR_AREA_c - WINDOW_AREA_c

\* U * AREA * (T_room - T_outside), in milliwatt
SurfaceLoss(U_c, AREA_c, T_room, T_outside) ==
    MulDiv(U_c * AREA_c, T_room - T_outside, 10 * DEG)

\* total_heat_loss (line 87)
total_heat_loss(walls, door, window, roof, ground) ==
    MulDiv(walls + door + window + roof, 5, 10)

\* dT (line 97)
GrzDT(q, loss, Tp) == MulDiv(q - MulDiv(loss, Tp, TPS), DEG, C_mJK)

\* the simulated seconds of simulate_2h, 2 * 3600 in the script
SIM_SECONDS == 4

\* simulate_2h up to its loop (lines 43-73)
GrzBegin ==
    /\ prog = "grz" /\ pc = "start"
    /\ time_points' = <<>> /\ temperature_points' = <<>>
    /\ power_array' = <<>> /\ heat_loss_array' = <<>>
    /\ loc' = NoLocals /\ i' = 0
    /\ IF params.tp = 0
       THEN /\ pc' = "raised" /\ exc' = "ZeroDivisionError" /\ steps' = 0
            /\ UNCHANGED <<pid, current_temp>>
       ELSE /\ pc' = "loop" /\ exc' = "none"
            /\ steps' = IntDiv(S(SIM_SECONDS), params.tp)
            /\ pid' = PI_reset(PI_init(pid, params.kp, params.ti, params.tp,
                                       0, W(max_power)))
            /\ current_temp' = params.initial_temp
    /\ UNCHANGED <<prog, params, call_no, prev>>

\* one iteration of the loop of simulate_2h (lines 75-98)
GrzStep ==
    /\ prog = "grz" /\ pc = "loop" /\ InRange(i, steps)
    /\ LET T_room   == current_temp
           T_outside == params.external_temp
           walls   == SurfaceLoss(U_WALL_c, WALL_AREA_c, T_room, T_outside)
           door    == SurfaceLoss(U_DOOR_c, DOOR_AREA_c, T_room, T_outside)
           window  == SurfaceLoss(U_WINDOW_c, WINDOW_AREA_c, T_room, T_outside)
           roof    == SurfaceLoss(U_ROOF_c, ROOF_AREA_c, T_room, T_outside)
           ground  == SurfaceLoss(U_GROUND_c, GROUND_AREA_c, T_room, T_outside)
           total   == total_heat_loss(walls, door, window, roof, ground)
           upd     == PI_update(pid, params.setpoint, T_room)
           P_grzejnik_total == Clip(upd.output, 0, W(max_power))
           dT      == GrzDT(P_grzejnik_total, total, params.tp)
           seen    == [loc EXCEPT !.current_time = i * params.tp,
                                  !.measured_value = T_room,
                                  !.heat_loss_walls = walls,
                                  !.heat_loss_door = door,
                                  !.heat_loss_window = window,
                                  !.heat_loss_roof = roof,
                                  !.heat_loss_ground = ground,
                                  !.loss = total]
       IN  /\ time_points' = Append(time_points, Minutes(i * params.tp))
           /\ temperature_points' = Append(temperature_points, T_room)
           /\ heat_loss_array' = Append(heat_loss_array, total)
           /\ pid' = upd.self
           /\ IF upd.exc # "none"
              THEN /\ pc' = "raised" /\ exc' = upd.exc
                   /\ loc' = seen
                   /\ UNCHANGED <<current_temp, i, power_array>>
              ELSE /\ power_array' = Append(power_array, P_grzejnik_total)
                   /\ current_temp' = T_room + dT
                   /\ loc' = [seen EXCEPT !.raw_output = upd.output,
                                          !.thermostat = P_grzejnik_total,
                                          !.gains = 0, !.dT = dT]
                   /\ i' = i + 1
                   /\ UNCHANGED <<pc, exc>>
    /\ UNCHANGED <<prog, params, call_no, prev, steps>>

\* simulate_2h returns its four series (line 100)
GrzFinish ==
    /\ prog = "grz" /\ pc = "loop" /\ ~InRange(i, steps)
    /\ pc' = "returned" /\ exc' = "none"
    /\ UNCHANGED <<prog, params, call_no, prev, pid, current_temp, i, steps,
                   time_points, temperature_points, power_array,
                   heat_loss_array, loc>>

----------------------------------------------------------------------------
(* src/.ipynb_checkpoints/ac-checkpoint.py *)

CK_W == 1500

CK_kp == 50

CK_ti == 1

CK_td_ms == 10

\* PIDController.__init__(W); td is kept in milliseconds
CkPIDController_init(self, Wmax) ==
    [self EXCEPT !.kp = CK_kp * 1000, !.ti = S(CK_ti), !.td = CK_td_ms,
                 !.integral = 0, !.prev_error = 0,
                 !.clamp_min = 0 - Wmax, !.clamp_max = Wmax]

\* no windup guard: the integral kept as accumulated
CkClampIntegral_off(self, integral) == integral

\* the windup guard (line 18): the integral clamped to +-clamp_max / kp
CkClampIntegral(self, integral) ==
    Clip(integral, 0 - MulDiv(self.clamp_max, DEG, self.kp),
         MulDiv(self.clamp_max, DEG, self.kp))

\* PIDController.symulacja_PID(setpoint, measured_value, tp)
CkSymulacja_PID(self, setpoint, measured_value, tp) ==
    LET error      == setpoint - measured_value
        integral   == CkClampIntegral(self, self.integral + MulDiv(error, tp, TPS))
        derivative == MulDiv(error - self.prev_error, TPS, tp)
        output     == MulDiv(error
                             + MulDiv(integral, tp, self.ti)
                             + MulDiv(derivative, self.td, tp * 100),
                             self.kp, DEG)
    IN  Updated([self EXCEPT !.integral = integral, !.prev_error = error],
                Clip(output, self.clamp_min, self.clamp_max))

CK_st == 1

\* the simulated seconds of symulacja, 3600 in the script
CK_SECONDS == 2

CK_ambient_temp == 15

CK_num_people == 0

CK_heat_per_person_u == 428

CK_k_loss == 5

CK_V == 30

\* heat_capacity = V * g * c, in millijoule per kelvin
CK_heat_capacity == CK_V * air_density_m * specific_heat_air

\* symulacja up to its loop (lines 26-34)
CkBegin ==
    /\ prog = "ckpt" /\ pc = "start"
    /\ pid' = CkPIDController_init(pid, W(CK_W))
    /\ current_temp' = C(CK_ambient_temp)
    /\ time_points' = <<>> /\ temperature_points' = <<>>
    /\ power_array' = <<>> /\ heat_loss_array' = <<>>
    /\ loc' = NoLocals /\ i' = 0
    /\ steps' = IntDiv(S(CK_SECONDS), CK_st)
    /\ pc' = "loop" /\ exc' = "none"
    /\ UNCHANGED <<prog, params, call_no, prev>>

\* one iteration of the loop of symulacja (lines 36-47)
CkStep ==
    /\ prog = "ckpt" /\ pc = "loop" /\ InRange(i, steps)
    /\ LET upd         == CkSymulacja_PID(pid, params.setpoint, current_temp, CK_st)
           thermostat  == Clip(upd.output, 0 - W(CK_W), W(CK_W))
           heat_loss   == MulDiv(W(CK_k_loss), current_temp - C(CK_ambient_temp), DEG)
           people_heat == (CK_num_people * CK_heat_per_person_u) \div 10
           dT          == EulerStep(thermostat - heat_loss + people_heat,
                                    CK_heat_capacity, CK_st)
       IN  /\ pid' = upd.self
           /\ current_temp' = current_temp + dT
           /\ time_points' = Append(time_points, Seconds(i * CK_st))
           /\ temperature_points' = Append(temperature_points, current_temp')
           /\ loc' = [loc EXCEPT !.current_time = i * CK_st,
                                 !.measured_value = current_temp,
                                 !.raw_output = upd.output,
                                 !.thermostat = thermostat,
                                 !.loss = heat_loss, !.gains = people_heat,
                                 !.dT = dT]
           /\ i' = i + 1
    /\ UNCHANGED <<prog, params, call_no, prev, pc, exc, steps, power_array,
                   heat_loss_array>>

\* symulacja hands its series to plot_results (line 49)
CkFinish ==
    /\ prog = "ckpt" /\ pc = "loop" /\ ~InRange(i, steps)
    /\ pc' = "returned" /\ exc' = "none"
    /\ UNCHANGED <<prog, params, call_no, prev, pid, current_temp, i, steps,
                   time_points, temperature_points, power_array,
                   heat_loss_array, loc>>

----------------------------------------------------------------------------
(* The front end: it calls a run and, when the run has ended, calls again *)

MaxSteps == 6

\* <<tp, total_time>>: runs of at most MaxSteps steps, a run of no step, and
\* the timesteps 0 and -1 s
AcTimes == {<<S(1), S(MaxSteps \div 2)>>, <<S(100), S(3)>>,
            <<S(100), S(100) * MaxSteps>>, <<0, S(3)>>, <<0 - S(1), S(3)>>}

AcOpenings(total_time) ==
    {NoOpenings, << <<0, total_time>> >>,
     << <<S(1), S(2)>>, <<S(200), S(300)>> >>}

AcArgs ==
    {Args(C(sp), C(15), tt[2], W(p), C(ext), man, ro, 40, 2000, ti, S(2), tt[1]) :
        sp \in {16, 22}, tt \in AcTimes, p \in {0, 1500, 100000},
        ext \in {5, 0 - 100}, man \in BOOLEAN,
        ro \in UNION {AcOpenings(t[2]) : t \in AcTimes}, ti \in {0, S(1), S(12)}}

\* simulate_2h(kp, Ti, setpoint, Tp, T_init=20.0, T_outside=15.0)
GrzArgs ==
    {Args(C(sp), C(20), 0, 0, C(15), FALSE, NoOpenings, 0, 800, Ti, 0, Tp) :
        sp \in {18, 23, 5000}, Ti \in {0, S(5)},
        Tp \in {5, S(1), S(2), 0, 0 - S(1)}}

\* symulacja(setpoint) of the checkpoint script
CkArgs ==
    {Args(C(sp), 0, 0, 0, 0, FALSE, NoOpenings, 0, 0, 0, 0, 0) :
        sp \in {0 - 100, 10, 15, 16, 22, 41, 100}}

Calls ==
    {<<"ac", a>> : a \in {x \in AcArgs :
                 /\ x.random_openings \in AcOpenings(x.total_time)
                 /\ (x.tp # 0 => IntDiv(x.total_time, x.tp) <= MaxSteps)}}
    \cup {<<"grz", a>> : a \in GrzArgs}
    \cup {<<"ckpt", a>> : a \in CkArgs}

Init ==
    /\ \E c \in Calls : prog = c[1] /\ params = c[2]
    /\ call_no = 1 /\ prev = NoResult
    /\ pc = "start" /\ exc = "none"
    /\ pid = NoController
    /\ current_temp = 0 /\ i = 0 /\ steps = 0
    /\ time_points = <<>> /\ temperature_points = <<>>
    /\ power_array = <<>> /\ heat_loss_array = <<>>
    /\ loc = NoLocals

Result ==
    [params |-> params, pc |-> pc, exc |-> exc, time_points |-> time_points,
     temperature_points |-> temperature_points, power_array |-> power_array,
     heat_loss_array |-> heat_loss_array]

\* the front end calls the run again: with the same arguments, or with the same
\* arguments and no disturbance windows
Rerun ==
    /\ pc \in {"returned", "raised"} /\ call_no = 1
    /\ prev' = Result
    /\ call_no' = 2
    /\ \E ro \in {params.random_openings, NoOpenings} :
           params' = [params EXCEPT !.random_openings = ro]
    /\ pc' = "start"
    /\ UNCHANGED <<prog, exc, pid, current_temp, i, steps, time_points,
                   temperature_points, power_array, heat_loss_array, loc>>

Next ==
    \/ AcBegin \/ AcStep \/ AcFinish
    \/ GrzBegin \/ GrzStep \/ GrzFinish
    \/ CkBegin \/ CkStep \/ CkFinish
    \/ Rerun

Spec == Init /\ [][Next]_vars

----------------------------------------------------------------------------
(* Claims *)

\* at least one loop iteration has completed: loc holds its locals
Stepped == pc \in {"loop", "returned"} /\ i >= 1

Last(seq) == seq[Len(seq)]

\* C1 as stated: after every controller update of every script the value the
\* controller returned lies within the output bounds: [0, ac_power] in ac.py,
\* [u_min, u_max] in grzejnik.py, [-W, W] in the checkpoint script.
C1_EveryControllerOutputBounded ==
    Stepped =>
        /\ prog = "ac" => 0 <= loc.raw_output /\ loc.raw_output <= params.ac_power
        /\ prog = "grz" => pid.u_min <= loc.raw_output /\ loc.raw_output <= pid.u_max
        /\ prog = "ckpt" => pid.clamp_min <= loc.raw_output
                            /\ loc.raw_output <= pid.clamp_max

\* C1 amended: the value returned by PI.update lies within [u_min, u_max] and
\* the value returned by the checkpoint script's symulacja_PID within [-W, W];
\* ac.py's symulacja_PID returns its output unclamped, and it is the actuator
\* value symulacja derives from it that lies within [0, ac_power].
C1_ClampedOutputsBounded ==
    Stepped =>
        /\ prog = "ac" => 0 <= loc.thermostat /\ loc.thermostat <= params.ac_power
        /\ prog = "grz" => pid.u_min <= loc.raw_output /\ loc.raw_output <= pid.u_max
        /\ prog = "grz" => pid.u_min = 0 /\ pid.u_max = W(max_power)
        /\ prog = "ckpt" => 0 - W(CK_W) <= loc.raw_output
                            /\ loc.raw_output <= W(CK_W)

\* C1 witness: PI.update has returned u_max where u_prev + delta_u exceeded it
C1_Saturated ==
    /\ prog = "grz" /\ Stepped /\ Len(power_array) >= 2
    /\ loc.raw_output = pid.u_max
    /\ power_array[Len(power_array) - 1] + pid.delta_u > pid.u_max

\* C2 as stated: a run of symulacja or simulate_2h with a timestep <= 0 ends
\* in a configuration error raised before the first step: no controller
\* update, no sample, no division by zero, no post-processing of an empty
\* series.
C2_InvalidTimestepConfigurationError ==
    (prog \in {"ac", "grz"} /\ params.tp <= 0 /\ pc # "start") =>
        /\ pc = "raised" /\ exc = "ConfigurationError"
        /\ i = 0 /\ time_points = <<>> /\ temperature_points = <<>>

\* the controller law at the first update with its integral term removed
NoIntegralFirstOutput ==
    LET e == params.setpoint - params.initial_temp
    IN  IF prog = "ac"
        THEN MulDiv(e + MulDiv(MulDiv(e, TPS, params.tp), params.td, TPS),
                    params.kp, DEG)
        ELSE Clip(MulDiv(e, params.kp, DEG), 0, W(max_power))

\* C3 as stated: with Ti = 0 every controller update completes without a
\* division fault and returns the output of the law without its integral
\* term.
C3_TiZeroDisablesIntegral ==
    (prog \in {"ac", "grz"} /\ params.ti = 0 /\ params.tp > 0 /\ pc # "start") =>
        /\ exc # "ZeroDivisionError"
        /\ (Stepped /\ i = 1) => loc.raw_output = NoIntegralFirstOutput

\* C4: a second call with the arguments of the first ends as the first did
\* and yields the same series, and every run enters its loop with a
\* controller whose integral, previous error and previous output are zero.
C4_SecondRunIdentical ==
    /\ (call_no = 2 /\ pc \in {"returned", "raised"} /\ params = prev.params)
           => Result = prev
    /\ (pc = "loop" /\ i = 0)
           => /\ pid.integral = 0 /\ pid.prev_error = 0
              /\ pid.u_prev = 0 /\ pid.e_prev = 0

\* C4 witness: the second of two calls with the same arguments has returned,
\* and the first had left a controller with accumulated state behind
C4_SecondRunReturned ==
    /\ call_no = 2 /\ pc = "returned" /\ params = prev.params
    /\ Len(temperature_points) >= 2
    /\ temperature_points[2] # temperature_points[1]
    /\ (pid.integral # 0 \/ pid.u_prev # 0)

\* the heat capacity and the timestep of the running script
Capacity ==
    IF prog = "ac" THEN heat_capacity
    ELSE IF prog = "grz" THEN C_mJK ELSE CK_heat_capacity

Timestep == IF prog = "ckpt" THEN CK_st ELSE params.tp

\* C5 as stated: in every step of every script the temperature change is
\* (clamped actuator output - total heat loss + gains) / capacitance * Tp,
\* up to one unit of rounding.
C5_PowerAndLossOverSameTimestep ==
    Stepped =>
        Abs(loc.dT - EulerStep(loc.thermostat - loc.loss + loc.gains,
                               Capacity, Timestep)) <= 1

\* the simulated duration of the running script
Duration == IF prog = "ac" THEN params.total_time ELSE S(SIM_SECONDS)

\* C6 as stated: a run of symulacja or simulate_2h with Tp > 0 that returns
\* has produced floor(duration / Tp) samples; sample k carries the time k*Tp
\* and the temperature held at the start of step k, the one the controller
\* was then queried with; sample 0 carries the initial temperature.
C6_SamplesAtStepStart ==
    prog \in {"ac", "grz"} =>
        /\ (pc = "returned" /\ params.tp > 0) =>
               /\ Len(time_points) = IntDiv(Duration, params.tp)
               /\ Len(temperature_points) = IntDiv(Duration, params.tp)
        /\ \A k \in 1..Len(time_points) :
               time_points[k] = Seconds((k - 1) * params.tp)
        /\ temperature_points # <<>> =>
               temperature_points[1] = params.initial_temp
        /\ Stepped => temperature_points[i] = loc.measured_value

\* C6 amended: a run with Tp > 0 that returns has produced int(duration / Tp)
\* samples; sample k carries the time k*Tp in minutes (k*Tp/60); in
\* simulate_2h it carries the temperature held at the start of step k
\* (sample 0 the initial temperature), recorded before the controller is
\* queried; in ac.py's symulacja it carries the temperature after the update
\* of step k.
C6_SamplesAsRecorded ==
    prog \in {"ac", "grz"} =>
        /\ (pc = "returned" /\ params.tp > 0) =>
               /\ Len(time_points) = IntDiv(Duration, params.tp)
               /\ Len(temperature_points) = IntDiv(Duration, params.tp)
        /\ \A k \in 1..Len(time_points) :
               time_points[k] = Minutes((k - 1) * params.tp)
        /\ prog = "grz" =>
               /\ temperature_points # <<>> =>
                      temperature_points[1] = params.initial_temp
               /\ Stepped => temperature_points[i] = loc.measured_value
        /\ (prog = "ac" /\ Stepped) =>
               temperature_points[i] = loc.measured_value + loc.dT

\* C6 witness: runs of both scripts have returned several samples, the
\* temperature changing from one to the next
C6_SeveralSamples ==
    /\ pc = "returned" /\ prog \in {"ac", "grz"}
    /\ Len(temperature_points) >= 3
    /\ temperature_points[2] # temperature_points[1]
    /\ temperature_points[1] # params.initial_temp \/ prog = "grz"
    /\ time_points[3] > 0

\* the series never rises, counted from the temperature T0 before it
NonIncreasingFrom(T0, seq) ==
    \A k \in 1..Len(seq) : seq[k] <= (IF k = 1 THEN T0 ELSE seq[k - 1])

\* the window is open at some step of the run
WindowEverOpen ==
    \E k \in 0..(steps - 1) :
        WindowOpenAt(params.manual_window_open, params.random_openings,
                     k * params.tp)

\* one step from the initial temperature, the window open or not, takes no
\* more than the excess over the outside temperature
NoOvershootAtStart(open) ==
    EulerStep(heat_loss_model(params.initial_temp, params.external_temp, open,
                              params.wall_thickness),
              heat_capacity, params.tp)
        <= params.initial_temp - params.external_temp

C7_Case ==
    /\ prog = "ac" /\ pc \in {"loop", "returned"}
    /\ params.ac_power = 0
    /\ params.initial_temp > params.external_temp
    /\ params.wall_thickness > 0

\* C7 as stated: with ac_power = 0 and an initial temperature above the
\* outside temperature the temperature series never rises and never falls
\* below the outside temperature, whatever the timestep and the window.
C7_MonotoneDecay ==
    C7_Case =>
        /\ NonIncreasingFrom(params.initial_temp, temperature_points)
        /\ \A k \in 1..Len(temperature_points) :
               temperature_points[k] >= params.external_temp

\* C7 amended: the same, provided a step cannot take more than the excess:
\* heat_loss * tp / heat_capacity <= initial_temp - external_temp for the
\* loss at the initial temperature, with the window open if it is open at
\* any step.
C7_MonotoneDecayWithoutOvershoot ==
    (C7_Case /\ NoOvershootAtStart(WindowEverOpen)) =>
        /\ NonIncreasingFrom(params.initial_temp, temperature_points)
        /\ \A k \in 1..Len(temperature_points) :
               temperature_points[k] >= params.external_temp

\* C7 witness: a run with the actuator disabled and the window open has
\* returned a strictly falling series
C7_Decayed ==
    /\ C7_Case /\ NoOvershootAtStart(WindowEverOpen) /\ pc = "returned"
    /\ params.manual_window_open
    /\ Len(temperature_points) >= 3
    /\ \A k \in 2..Len(temperature_points) :
           temperature_points[k] < temperature_points[k - 1]
    /\ temperature_points[1] < params.initial_temp

\* two runs that have returned, the first with one window over the whole run,
\* the second with none, the arguments otherwise the same
C8_Pair ==
    /\ prog = "ac" /\ call_no = 2 /\ pc = "returned" /\ prev.pc = "returned"
    /\ params.random_openings = NoOpenings
    /\ prev.params = [params EXCEPT
                         !.random_openings = << <<0, params.total_time>> >>]
    /\ ~params.manual_window_open
    /\ params.initial_temp > params.external_temp

\* C8 as stated: the run with the window ends strictly colder than the run
\* without.
C8_DisturbedEndsColder ==
    C8_Pair => Last(prev.temperature_points) < Last(temperature_points)

\* C8 amended: the run with the window ends strictly colder, provided the
\* actuator is disabled (ac_power = 0) and a step cannot take more than the
\* excess over the outside temperature with the window open.
C8_DisturbedEndsColderUnheated ==
    (C8_Pair /\ params.ac_power = 0 /\ NoOvershootAtStart(TRUE)) =>
        Last(prev.temperature_points) < Last(temperature_points)

\* C8 witness: such a pair of unheated runs of several steps has returned
C8_UnheatedPair ==
    /\ C8_Pair /\ params.ac_power = 0 /\ NoOvershootAtStart(TRUE)
    /\ Len(temperature_points) >= 3
    /\ Len(prev.temperature_points) = Len(temperature_points)

\* C9: the flag passed to heat_loss_model at step i is true exactly when the
\* manual toggle is set or start <= i*tp <= end for some configured window.
C9_WindowFlag ==
    (prog = "ac" /\ Stepped) =>
        /\ loc.current_time = (i - 1) * params.tp
        /\ loc.window_open <=>
               \/ params.manual_window_open
               \/ \E k \in 1..Len(params.random_openings) :
                      /\ params.random_openings[k][1] <= loc.current_time
                      /\ loc.current_time <= params.random_openings[k][2]

\* C9 witness: the toggle off, the step's time on the start of the second
\* window, the flag true
C9_OnWindowStart ==
    /\ prog = "ac" /\ Stepped /\ ~params.manual_window_open
    /\ Len(params.random_openings) = 2
    /\ loc.current_time = params.random_openings[2][1]
    /\ loc.window_open

\* C10 as stated: in simulate_2h the total heat loss of a step, used in the
\* temperature update and recorded in heat_loss_array, is the sum of the
\* losses of the walls, the door, the window, the roof and the ground.
C10_TotalIsSumOfAllSurfaces ==
    (prog = "grz" /\ Stepped) =>
        /\ loc.loss = loc.heat_loss_walls + loc.heat_loss_door
                      + loc.heat_loss_window + loc.heat_loss_roof
                      + loc.heat_loss_ground
        /\ Last(heat_loss_array) = loc.loss

\* C11: every update of the incremental PI controller that returns (Ti # 0)
\* returns clamp(u_prev + Kp*((e - e_prev) + (Tp/Ti)*e), u_min, u_max), with
\* e = setpoint - measurement and u_prev, e_prev the values carried from the
\* update before (0 before the first); after it the carried u_prev is the
\* clamped value just returned, so within [u_min, u_max], and the carried
\* e_prev is the e of that update.
C11_IncrementalRecurrence ==
    [][(prog = "grz" /\ pc = "loop" /\ i' = i + 1) =>
          LET e == params.setpoint - current_temp
              u == pid.u_prev
                   + MulDiv((e - pid.e_prev) + MulDiv(e, params.tp, params.ti),
                            params.kp, DEG)
          IN  /\ loc'.raw_output = Clip(u, pid.u_min, pid.u_max)
              /\ pid'.u_prev = loc'.raw_output
              /\ pid.u_min <= pid'.u_prev /\ pid'.u_prev <= pid.u_max
              /\ pid'.e_prev = e
              /\ pid'.u_min = pid.u_min /\ pid'.u_max = pid.u_max]_vars

\* C11 witness: an update has followed an update that returned the upper
\* bound: the carried u_prev was u_max, the increment positive, and the value
\* returned and carried on is u_max again
C11_CarriedAtBound ==
    /\ prog = "grz" /\ Stepped /\ i >= 2 /\ Len(power_array) = i
    /\ power_array[i - 1] = pid.u_max
    /\ pid.delta_u > 0 /\ pid.e_prev # 0
    /\ pid.u_prev = pid.u_max

\* C12: in the checkpoint script every controller update leaves the integral
\* within [-W/kp, W/kp]: the accumulated sum integral + error*tp is clamped to
\* that range first, the output is computed from the clamped integral, and the
\* output is then clamped to [-W, W] on its own.
C12_IntegralClampedBeforeOutput ==
    [][(prog = "ckpt" /\ pc = "loop" /\ i' = i + 1) =>
          LET error      == params.setpoint - current_temp
              bound      == C(CK_W) \div CK_kp
              sum        == pid.integral + MulDiv(error, CK_st, TPS)
              derivative == MulDiv(error - pid.prev_error, TPS, CK_st)
              output     == MulDiv(error
                                   + MulDiv(pid'.integral, CK_st, S(CK_ti))
                                   + MulDiv(derivative, CK_td_ms, CK_st * 100),
                                   CK_kp * 1000, DEG)
          IN  /\ pid'.integral = Clip(sum, 0 - bound, bound)
              /\ 0 - bound <= pid'.integral /\ pid'.integral <= bound
              /\ loc'.raw_output = Clip(output, 0 - W(CK_W), W(CK_W))]_vars

\* C12 witness: the integral stands at its upper bound after an update with a
\* positive error that followed enough updates to have filled it, while the
\* output of that update is inside its own bounds
C12_IntegralAtBoundOutputInside ==
    /\ prog = "ckpt" /\ Stepped
    /\ pid.integral = C(CK_W) \div CK_kp
    /\ pid.prev_error > 0
    /\ i * MulDiv(pid.prev_error, CK_st, TPS) > pid.integral + C(1)
    /\ 0 < loc.raw_output /\ loc.raw_output < W(CK_W)

=============================================================================
